---- MODULE Spec2Model ----
(***************************************************************************)
(* Experiment creation (experimentation-platform `create` handler), the    *)
(* shared snowflake id generator (service_utils `generate_snowflake_id`)   *)
(* and the JSON-logic dimension extractor (service_utils                   *)
(* `extract_dimensions`).                                                  *)
(***************************************************************************)
EXTENDS Integers, Sequences, FiniteSets, TLC

(***************************************************************************)
(* Bounds of the model.                                                    *)
(***************************************************************************)
\* longest operand array of an operator in an enumerated context
MaxOperands == 3
\* longest "and" list of an enumerated context
MaxConds == 2
\* concurrent POST /experiments requests
NumCreate == 2
\* concurrent generate_snowflake_id callers
NumGen == 1
\* last millisecond the clock reaches
MaxClock == 1
\* sequence numbers per millisecond (4096 in the generator, scaled down so
\* that the sequence wraps within the model)
SeqMod == 2
\* longest HOSTNAME, in characters
MaxHostname == 7

(***************************************************************************)
(* serde_json::Value.  Every value is a record of the same shape: t is the *)
(* JSON type, s the string payload (a string's text, a member's key) and c *)
(* the children (an array's elements, an object's members in the           *)
(* iteration order of its Map, a member's single value).                   *)
(***************************************************************************)
JNull == [t |-> "null", s |-> "", c |-> <<>>]

JStr(str) == [t |-> "str", s |-> str, c |-> <<>>]

JArr(elems) == [t |-> "arr", s |-> "", c |-> elems]

JMem(key, val) == [t |-> "mem", s |-> key, c |-> <<val>>]

JObj(members) == [t |-> "obj", s |-> "", c |-> members]

\* Value::is_object
is_object(v) == v.t = "obj"

\* Value::is_array / as_array().is_some()
is_array(v) == v.t = "arr"

\* Value::as_str().is_some()
is_string(v) == v.t = "str"

\* Map::contains_key / get(key).is_some()
has_key(obj, key) == \E i \in DOMAIN obj.c : obj.c[i].s = key

\* Map::get(key) / obj[key], for a key the object has
get(obj, key) == obj.c[CHOOSE i \in DOMAIN obj.c : obj.c[i].s = key].c[1]

\* {"var": name}
VarRef(name) == JObj(<<JMem("var", JStr(name))>>)

\* Byte order of the strings used as keys (String's Ord, the order of a
\* BTreeMap-backed serde_json::Map).
StrOrder == <<"==", "a", "and", "b", "city", "in", "k", "var", "variant_id">>

StrRank(str) == CHOOSE i \in DOMAIN StrOrder : StrOrder[i] = str

StrLess(s1, s2) == StrRank(s1) < StrRank(s2)

(***************************************************************************)
(* result::Result<T>: ok with a value, or the AppError kind.               *)
(***************************************************************************)
BadArgument == "BadArgument"

(***************************************************************************)
(* get_variable_name_and_value (helpers.rs 169-202)                        *)
(***************************************************************************)
\* the closure of .find(): an object operand that has a "var" key
IsVarOperand(operand) == is_object(operand) /\ has_key(operand, "var")

\* .iter().enumerate().find(..): 0-based position of the first variable
\* operand, -1 when there is none
FindVarPos(operands) ==
    IF \E i \in DOMAIN operands : IsVarOperand(operands[i])
    THEN (CHOOSE i \in DOMAIN operands :
              /\ IsVarOperand(operands[i])
              /\ \A j \in 1..(i - 1) : ~IsVarOperand(operands[j])) - 1
    ELSE -1

\* value_pos of a mutated extractor: the operand after the variable
ValuePosNoWrap(obj_pos) == obj_pos + 1

\* let value_pos = (obj_pos + 1) % 2;
ValuePos(obj_pos) == (obj_pos + 1) % 2

NameValueErr == [ok |-> FALSE, err |-> BadArgument, name |-> "", value |-> JNull]

get_variable_name_and_value(operands) ==
    LET obj_pos == FindVarPos(operands) IN
    IF obj_pos = -1 THEN NameValueErr
    ELSE
      LET variable_obj == operands[obj_pos + 1]
          value_pos == ValuePos(obj_pos)
      IN  IF ~(is_object(variable_obj) /\ has_key(variable_obj, "var")
                /\ is_string(get(variable_obj, "var")))
          THEN NameValueErr
          ELSE IF value_pos >= Len(operands) THEN NameValueErr
          ELSE [ok |-> TRUE, err |-> "",
                name |-> get(variable_obj, "var").s,
                value |-> operands[value_pos + 1]]

(***************************************************************************)
(* Map<String, Value>::from_iter over (name, value) tuples.  A map is the  *)
(* sequence of its entries in iteration order.  With serde_json's default  *)
(* BTreeMap the entries are ordered by key; with the preserve_order        *)
(* feature (IndexMap) by first insertion.  In both a repeated key keeps    *)
(* one entry whose value is the later one.                                 *)
(***************************************************************************)
MapHas(map, key) == \E i \in DOMAIN map : map[i].k = key

MapGet(map, key) == map[CHOOSE i \in DOMAIN map : map[i].k = key].v

MapKeys(map) == {map[i].k : i \in DOMAIN map}

MapInsert(po, map, key, val) ==
    IF MapHas(map, key)
    THEN [i \in DOMAIN map |-> IF map[i].k = key THEN [k |-> key, v |-> val] ELSE map[i]]
    ELSE IF po THEN Append(map, [k |-> key, v |-> val])
    ELSE LET n == Cardinality({i \in DOMAIN map : StrLess(map[i].k, key)})
         IN  SubSeq(map, 1, n) \o <<[k |-> key, v |-> val]>> \o SubSeq(map, n + 1, Len(map))

RECURSIVE MapFromIter(_, _, _)
MapFromIter(po, tuples, map) ==
    IF tuples = <<>> THEN map
    ELSE MapFromIter(po, Tail(tuples), MapInsert(po, map, Head(tuples).k, Head(tuples).v))

(***************************************************************************)
(* extract_dimensions (helpers.rs 128-167)                                 *)
(***************************************************************************)
DimErr == [ok |-> FALSE, err |-> BadArgument, map |-> <<>>]

\* a mutated inner loop: an operator without a usable variable operand is
\* skipped instead of failing the extraction
RECURSIVE OperatorTuplesSkip(_, _, _)
OperatorTuplesSkip(condition_obj, i, acc) ==
    IF i > Len(condition_obj.c) THEN [ok |-> TRUE, err |-> "", map |-> acc]
    ELSE LET operands_json == condition_obj.c[i].c[1] IN
         IF ~is_array(operands_json) THEN DimErr
         ELSE LET nv == get_variable_name_and_value(operands_json.c) IN
              IF ~nv.ok THEN OperatorTuplesSkip(condition_obj, i + 1, acc)
              ELSE OperatorTuplesSkip(condition_obj, i + 1,
                                      Append(acc, [k |-> nv.name, v |-> nv.value]))

\* the inner loop over one condition's operators, from operator number i on,
\* pushing onto the tuples collected so far
RECURSIVE OperatorTuples(_, _, _)
OperatorTuples(condition_obj, i, acc) ==
    IF i > Len(condition_obj.c) THEN [ok |-> TRUE, err |-> "", map |-> acc]
    ELSE LET operands_json == condition_obj.c[i].c[1] IN
         IF ~is_array(operands_json) THEN DimErr
         ELSE LET nv == get_variable_name_and_value(operands_json.c) IN
              IF ~nv.ok THEN DimErr
              ELSE OperatorTuples(condition_obj, i + 1,
                                  Append(acc, [k |-> nv.name, v |-> nv.value]))

\* the outer loop over the conditions
RECURSIVE ConditionTuples(_, _)
ConditionTuples(conditions, acc) ==
    IF conditions = <<>> THEN [ok |-> TRUE, err |-> "", map |-> acc]
    ELSE LET condition == Head(conditions) IN
         IF ~is_object(condition) THEN DimErr
         ELSE LET r == OperatorTuples(condition, 1, acc) IN
              IF ~r.ok THEN DimErr
              ELSE ConditionTuples(Tail(conditions), r.map)

extract_dimensions(po, context_json) ==
    IF ~is_object(context_json) THEN DimErr
    ELSE IF has_key(context_json, "and") /\ ~is_array(get(context_json, "and")) THEN DimErr
    ELSE LET conditions == IF has_key(context_json, "and")
                           THEN get(context_json, "and").c
                           ELSE <<context_json>>
             dimension_tuples == ConditionTuples(conditions, <<>>)
         IN  IF ~dimension_tuples.ok THEN DimErr
             ELSE [ok |-> TRUE, err |-> "",
                   map |-> MapFromIter(po, dimension_tuples.map, <<>>)]

(***************************************************************************)
(* Requests.  ExperimentCreateRequest: name, override_keys,                *)
(* traffic_percentage, context and variants; a Variant has id,             *)
(* variant_type, overrides and the optional context_id / override_id.      *)
(* Option<T> is a sequence of length 0 (None) or 1 (Some).                 *)
(***************************************************************************)
None == <<>>

Some(x) == <<x>>

Variant(vid, vtype, overrides) ==
    [id |-> vid, variant_type |-> vtype, overrides |-> overrides,
     context_id |-> None, override_id |-> None]

CityIsNY == JObj(<<JMem("==", JArr(<<VarRef("city"), JStr("NY")>>))>>)

Ctrl == Variant("ctrl", "CONTROL", JObj(<<JMem("a", JStr("1"))>>))

V1 == Variant("v1", "EXPERIMENTAL", JObj(<<JMem("a", JStr("2"))>>))

Request(name, context, variants) ==
    [name |-> name, override_keys |-> <<"a">>, traffic_percentage |-> 10,
     context |-> context, variants |-> variants]

\* the request bodies the clients send
Requests ==
    { Request("exp1", CityIsNY, <<Ctrl, V1>>),
      \* two CONTROL variants and no EXPERIMENTAL one
      Request("exp2", CityIsNY, <<Ctrl, Ctrl>>),
      \* a variant that does not override key "a"
      Request("exp3", CityIsNY,
              <<Ctrl, Variant("v1", "EXPERIMENTAL", JObj(<<JMem("b", JStr("2"))>>))>>),
      \* a context that is no object
      Request("exp4", JArr(<<CityIsNY>>), <<Ctrl, V1>>),
      \* a context that is an object but no condition tree
      Request("exp5", JObj(<<JMem("and", JStr("NY"))>>), <<Ctrl, V1>>) }

NoRequest == Request("", JNull, <<>>)

(***************************************************************************)
(* Processes.                                                              *)
(***************************************************************************)
CreateProcs == 1..NumCreate

GenProcs == (NumCreate + 1)..(NumCreate + NumGen)

Procs == CreateProcs \cup GenProcs

NoId == -1

VARIABLES
    clock,            \* wall clock in milliseconds since the generator's epoch
    generator,        \* state.snowflake_generator: last_time_millis, idx
    lock_owner,       \* holder of the generator's MutexGuard, 0 when unlocked
    poisoned,         \* the generator's Mutex is poisoned
    loaded,           \* per caller: generator fields read by real_time_generate
    pc,               \* per process: position in create / generate_snowflake_id
    req,              \* per create request: the request body
    experiment_id,    \* per create request: let experiment_id
    id,               \* per generate_snowflake_id call: let id
    variants,         \* per create request: let mut variants
    cac_operations,   \* per create request: let mut cac_operations
    cac_response,     \* per create request: what the bulk call came back with
    http_response,    \* per process: the answer given to the caller
    bulk_calls,       \* PUT /context/bulk-operations calls sent, in order
    cac_store,        \* contexts that exist in the context store
    minted,           \* the ids real_time_generate has returned, in order
    experiments,      \* rows of the experiments table, in insertion order
    preserve_order,   \* serde_json is built with the preserve_order feature
    context_json,     \* extract_dimensions: the argument
    dimensions,       \* extract_dimensions: the result, once it has run
    hostname,         \* the HOSTNAME environment variable, None when unset
    pod_info,         \* get_pod_info: the outcome, once it has run
    cac_host          \* state.cac_host: who serves /context/bulk-operations

vars == <<clock, generator, lock_owner, poisoned, loaded, pc, req, experiment_id,
          id, variants, cac_operations, cac_response, http_response, bulk_calls,
          cac_store, minted, experiments, preserve_order, context_json, dimensions,
          hostname, pod_info, cac_host>>

createVars == <<clock, generator, lock_owner, poisoned, loaded, pc, req,
                experiment_id, id, variants, cac_operations, cac_response,
                http_response, bulk_calls, cac_store, minted, experiments>>

dimVars == <<preserve_order, context_json, dimensions>>

podVars == <<hostname, pod_info>>

NotLoaded == [last_time_millis |-> 0, idx |-> 0, now_millis |-> 0]

NoAnswer == [status |-> "", body |-> "", experiment_id |-> NoId]

Answer(status, body) == [status |-> status, body |-> body, experiment_id |-> NoId]

NoResponse == [kind |-> "", status |-> 0, parsed |-> FALSE, results |-> <<>>]

NotRun == [ok |-> FALSE, err |-> "", map |-> <<>>]

NotCalled == [outcome |-> "", pod_id |-> <<>>, deployment_id |-> <<>>]

InitCreate ==
    /\ clock = 0
    /\ generator = [last_time_millis |-> 0, idx |-> 0]
    /\ lock_owner = 0
    /\ poisoned = FALSE
    /\ loaded = [p \in Procs |-> NotLoaded]
    /\ pc = [p \in Procs |-> "idle"]
    /\ req = [p \in CreateProcs |-> NoRequest]
    /\ experiment_id = [p \in CreateProcs |-> NoId]
    /\ id = [p \in GenProcs |-> NoId]
    /\ variants = [p \in CreateProcs |-> <<>>]
    /\ cac_operations = [p \in CreateProcs |-> <<>>]
    /\ cac_response = [p \in CreateProcs |-> NoResponse]
    /\ http_response = [p \in Procs |-> NoAnswer]
    /\ bulk_calls = <<>>
    /\ cac_store = {}
    /\ minted = <<>>
    /\ experiments = <<>>

Init ==
    /\ InitCreate
    /\ preserve_order = FALSE
    /\ context_json = JNull
    /\ dimensions = NotRun
    /\ hostname = None
    /\ pod_info = NotCalled
    /\ cac_host = "other"

(***************************************************************************)
(* Helpers of the create handler.                                          *)
(***************************************************************************)
\* check_variant_types: exactly one CONTROL and at least one EXPERIMENTAL
check_variant_types(vs) ==
    /\ Cardinality({i \in DOMAIN vs : vs[i].variant_type = "CONTROL"}) = 1
    /\ Cardinality({i \in DOMAIN vs : vs[i].variant_type = "EXPERIMENTAL"}) >= 1

\* check_variants_override_coverage: every variant overrides every key
check_variants_override_coverage(vs, override_keys) ==
    \A i \in DOMAIN vs : \A j \in DOMAIN override_keys :
        has_key(vs[i].overrides, override_keys[j])

\* a mutated context check that lets every context through
ContextCheckSkipped(context) == TRUE

\* req.context.is_object()  (handlers.rs 61)
ContextIsObject(context) == is_object(context)

\* {"==": [{"var": "variant_id"}, variant_id]}
VariantCondition(variant_id) ==
    JObj(<<JMem("==", JArr(<<VarRef("variant_id"), JStr(variant_id)>>))>>)

\* add_variant_dimension_to_ctx: the base context's condition list with the
\* variant condition added, as {"and": [...]}
add_variant_dimension_to_ctx(context, variant_id) ==
    IF ~is_object(context) THEN [ok |-> FALSE, value |-> JNull]
    ELSE IF has_key(context, "and") /\ ~is_array(get(context, "and"))
    THEN [ok |-> FALSE, value |-> JNull]
    ELSE LET conditions == IF has_key(context, "and") THEN get(context, "and").c
                           ELSE <<context>>
         IN  [ok |-> TRUE,
              value |-> JObj(<<JMem("and",
                           JArr(Append(conditions, VariantCondition(variant_id))))>>)]

\* a mutated payload that leaves the variant's overrides out
ContextPutReqNoOverride(context, override) ==
    [context |-> context, override |-> JObj(<<>>)]

\* ContextAction::PUT(ContextPutReq { context, r#override })
\* (handlers.rs 101-108)
ContextPutReq(context, override) == [context |-> context, override |-> override]

\* a mutated rewrite that leaves the variant id as the client chose it
RewrittenIdUnchanged(eid, vid) == vid

\* experiment_id.to_string() + "-" + &variant.id  (handlers.rs 92)
RewrittenId(eid, vid) == ToString(eid) \o "-" \o vid

\* a mutated lock that never waits for the holder
MutexIgnored == TRUE

\* Mutex::lock() returns only when nobody holds the guard
MutexFree == lock_owner = 0

\* the bodies of the answers (handlers.rs 50, 56, 63, 76, 169); the first is
\* the text of check_variant_types' error
VariantTypesMsg == "e.to_string()"

CoverageMsg == "all variants should contain the keys mentioned override_keys"

ContextMsg == "context should be map of key value pairs"

InvalidConfigMsg == "invalid experiment config"

FailedMsg == "Failed to create experiment"

\* what a return of the handler or of generate_snowflake_id changes
returnVars == <<pc, http_response, lock_owner, loaded, req, experiment_id, id,
                variants, cac_operations, cac_response>>

\* The function returns (or unwinds): the answer goes out, the guard, a local
\* of the function, is dropped if the caller holds it, and the other locals
\* go out of scope.
Return(p, answer) ==
    /\ pc' = [pc EXCEPT ![p] = "done"]
    /\ http_response' = [http_response EXCEPT ![p] = answer]
    /\ lock_owner' = IF lock_owner = p THEN 0 ELSE lock_owner
    /\ loaded' = [loaded EXCEPT ![p] = NotLoaded]
    /\ req' = [q \in CreateProcs |-> IF q = p THEN NoRequest ELSE req[q]]
    /\ experiment_id' = [q \in CreateProcs |-> IF q = p THEN NoId ELSE experiment_id[q]]
    /\ id' = [q \in GenProcs |-> IF q = p THEN NoId ELSE id[q]]
    /\ variants' = [q \in CreateProcs |-> IF q = p THEN <<>> ELSE variants[q]]
    /\ cac_operations' = [q \in CreateProcs |-> IF q = p THEN <<>> ELSE cac_operations[q]]
    /\ cac_response' = [q \in CreateProcs |-> IF q = p THEN NoResponse ELSE cac_response[q]]

\* the function moves on to position next
Goto(p, next) == pc' = [pc EXCEPT ![p] = next]

(***************************************************************************)
(* POST /experiments: create (handlers.rs 35-173)                          *)
(***************************************************************************)
\* The request r arrives and lines 43-83 run; verdict is what
\* validate_experiment returns: "valid" (Ok(true)), "invalid" (Ok(false)) or
\* "error" (Err).
Validate(p, r, verdict) ==
    /\ pc[p] = "idle"
    /\ p \in CreateProcs
    /\ IF ~check_variant_types(r.variants)
       THEN Return(p, Answer("400", VariantTypesMsg))
       ELSE IF ~check_variants_override_coverage(r.variants, r.override_keys)
       THEN Return(p, Answer("400", CoverageMsg))
       ELSE IF ~ContextIsObject(r.context)
       THEN Return(p, Answer("400", ContextMsg))
       ELSE IF verdict = "invalid" THEN Return(p, Answer("400", InvalidConfigMsg))
       ELSE IF verdict = "error" THEN Return(p, Answer("500", ""))
       ELSE /\ req' = [req EXCEPT ![p] = r]
            /\ variants' = [variants EXCEPT ![p] = r.variants]
            /\ Goto(p, "lock")
            /\ UNCHANGED <<http_response, lock_owner, loaded, experiment_id, id,
                           cac_operations, cac_response>>
    /\ UNCHANGED <<clock, generator, poisoned, bulk_calls, cac_store, minted,
                   experiments, dimVars, podVars, cac_host>>

\* line 86: state.snowflake_generator.lock().unwrap()
Lock(p) ==
    /\ pc[p] = "lock"
    /\ MutexFree
    /\ IF poisoned
       THEN Return(p, Answer("panic", ""))
       ELSE /\ lock_owner' = p
            /\ Goto(p, "generate")
            /\ UNCHANGED <<http_response, loaded, req, experiment_id, id, variants,
                           cac_operations, cac_response>>
    /\ UNCHANGED <<clock, generator, poisoned, bulk_calls, cac_store, minted,
                   experiments, dimVars, podVars, cac_host>>

(***************************************************************************)
(* SnowflakeIdGenerator::real_time_generate, called at handlers.rs 87 and  *)
(* helpers.rs 209: the sequence number is advanced; within the millisecond *)
(* of the last id it is used as it is, unless it wrapped, and then the     *)
(* call waits for the next millisecond; in a new millisecond it restarts   *)
(* at 0.  The id is the millisecond followed by the sequence number.       *)
(***************************************************************************)
IdOf(last_time_millis, idx) == last_time_millis * SeqMod + idx

\* the call reads the generator's fields and the clock
RealTimeGenerateLoad(p) ==
    /\ pc[p] = "generate"
    /\ loaded' = [loaded EXCEPT ![p] =
                    [last_time_millis |-> generator.last_time_millis,
                     idx |-> (generator.idx + 1) % SeqMod,
                     now_millis |-> clock]]
    /\ Goto(p, "generating")
    /\ UNCHANGED <<clock, generator, lock_owner, poisoned, req, experiment_id, id,
                   variants, cac_operations, cac_response, http_response, bulk_calls,
                   cac_store, minted, experiments, dimVars, podVars, cac_host>>

\* the call writes the fields back and returns the id
RealTimeGenerateStore(p) ==
    /\ pc[p] = "generating"
    /\ LET l == loaded[p]
           wrapped == l.now_millis = l.last_time_millis /\ l.idx = 0
           next == IF wrapped THEN [last_time_millis |-> clock, idx |-> 0]
                   ELSE IF l.now_millis = l.last_time_millis
                   THEN [last_time_millis |-> l.last_time_millis, idx |-> l.idx]
                   ELSE [last_time_millis |-> l.now_millis, idx |-> 0]
           new_id == IdOf(next.last_time_millis, next.idx)
       IN  /\ wrapped => clock > l.last_time_millis
           /\ generator' = next
           /\ minted' = Append(minted, new_id)
           /\ IF p \in CreateProcs
              THEN /\ experiment_id' = [experiment_id EXCEPT ![p] = new_id]
                   /\ Goto(p, "build")
                   /\ UNCHANGED id
              ELSE /\ id' = [id EXCEPT ![p] = new_id]
                   /\ Goto(p, "drop")
                   /\ UNCHANGED experiment_id
    /\ loaded' = [loaded EXCEPT ![p] = NotLoaded]
    /\ UNCHANGED <<clock, lock_owner, poisoned, req, variants, cac_operations,
                   cac_response, http_response, bulk_calls, cac_store, experiments,
                   dimVars, podVars, cac_host>>

\* lines 90-109: rewrite the variant ids and build one PUT per variant
Build(p) ==
    /\ pc[p] = "build"
    /\ LET vs == variants[p]
           rewritten == [i \in DOMAIN vs |->
                           [vs[i] EXCEPT !.id = RewrittenId(experiment_id[p], vs[i].id)]]
           updated == [i \in DOMAIN vs |->
                         add_variant_dimension_to_ctx(req[p].context, rewritten[i].id)]
       IN  IF \E i \in DOMAIN vs : ~updated[i].ok \/ ~is_object(updated[i].value)
           THEN Return(p, Answer("500", ""))
           ELSE /\ variants' = [variants EXCEPT ![p] = rewritten]
                /\ cac_operations' = [cac_operations EXCEPT ![p] =
                       [i \in DOMAIN vs |-> ContextPutReq(updated[i].value,
                                                           rewritten[i].overrides)]]
                /\ Goto(p, "send")
                /\ UNCHANGED <<http_response, lock_owner, loaded, req, experiment_id, id,
                               cac_response>>
    /\ UNCHANGED <<clock, generator, poisoned, bulk_calls, cac_store, minted,
                   experiments, dimVars, podVars, cac_host>>

\* lines 112-119: the bulk call goes out
Send(p) ==
    /\ pc[p] = "send"
    /\ bulk_calls' = Append(bulk_calls, cac_operations[p])
    /\ Goto(p, "remote")
    /\ UNCHANGED <<clock, generator, lock_owner, poisoned, loaded, req, experiment_id,
                   id, variants, cac_operations, cac_response, http_response,
                   cac_store, minted, experiments, dimVars, podVars, cac_host>>

\* The ContextPutResp the store answers operation number i of a batch with;
\* its ids are digests of the operation's context and override, which the
\* variant id in the context's last condition tells apart.  A response longer
\* than the batch carries results that answer no operation.
PutResp(operations, i) ==
    IF i \in DOMAIN operations
    THEN LET conditions == get(operations[i].context, "and").c
             variant_id == get(conditions[Len(conditions)], "==").c[2].s
         IN  [context_id |-> "c:" \o variant_id, override_id |-> "o:" \o variant_id]
    ELSE [context_id |-> "c:", override_id |-> "o:"]

\* The context store and the network: the call does not come back
\* (kind "transport_error"), or it comes back with an HTTP status and a body
\* that does not parse as Vec<ContextPutResp> or parses to n results: for a
\* 200 one result fewer than, as many as or one more than the operations, for
\* a 500 none.  applied tells whether the store executed the batch.  When
\* cac_host is this process ("self"), the bulk-operations handler that
\* answers takes state.snowflake_generator itself (helpers.rs 210) and so
\* answers only once the lock is free.
CacBulk(p, kind, status, parsed, n, applied) ==
    /\ pc[p] = "remote"
    /\ cac_host = "self" /\ kind = "http" => MutexFree
    /\ kind = "transport_error" => status = 0 /\ ~parsed /\ n = 0
    /\ kind = "http" => status # 0 /\ (applied <=> status = 200)
    /\ ~parsed \/ status = 500 => n = 0
    /\ parsed /\ status = 200 => n >= Len(cac_operations[p]) - 1
    /\ cac_response' = [cac_response EXCEPT ![p] =
           [kind |-> kind, status |-> status, parsed |-> parsed,
            results |-> [i \in 1..n |-> PutResp(cac_operations[p], i)]]]
    /\ cac_store' = IF applied
                    THEN cac_store \cup {cac_operations[p][i].context :
                                            i \in DOMAIN cac_operations[p]}
                    ELSE cac_store
    /\ Goto(p, "response")
    /\ UNCHANGED <<clock, generator, lock_owner, poisoned, loaded, req, experiment_id,
                   id, variants, cac_operations, http_response, bulk_calls, minted,
                   experiments, dimVars, podVars, cac_host>>

\* a mutated loop that reads the first result for every variant
CreatedContextFirst(created_contexts, i) == created_contexts[1]

\* let created_context = &created_contexts[i];  (handlers.rs 132)
CreatedContext(created_contexts, i) == created_contexts[i]

\* lines 119-136: send()'s and json()'s results, then the loop over
\* created_contexts
HandleResponse(p) ==
    /\ pc[p] = "response"
    /\ LET created_contexts == cac_response[p].results IN
       IF cac_response[p].kind = "transport_error" \/ ~cac_response[p].parsed
       THEN /\ Return(p, Answer("500", ""))
            /\ UNCHANGED poisoned
       ELSE IF Len(created_contexts) > Len(variants[p])
       THEN \* variants[i] is out of bounds: the handler panics with the guard held
            /\ Return(p, Answer("panic", ""))
            /\ poisoned' = TRUE
       ELSE /\ variants' = [variants EXCEPT ![p] =
                   [i \in DOMAIN variants[p] |->
                       IF i <= Len(created_contexts)
                       THEN LET created_context == CreatedContext(created_contexts, i)
                            IN  [variants[p][i] EXCEPT
                                   !.context_id = Some(created_context.context_id),
                                   !.override_id = Some(created_context.override_id)]
                       ELSE variants[p][i]]]
            /\ Goto(p, "persist")
            /\ UNCHANGED <<http_response, lock_owner, loaded, req, experiment_id, id,
                           cac_operations, cac_response, poisoned>>
    /\ UNCHANGED <<clock, generator, bulk_calls, cac_store, minted, experiments,
                   dimVars, podVars, cac_host>>

\* a mutated row that stores the context as augmented for the first variant
NewExperimentAugmented(p) ==
    [id |-> experiment_id[p],
     created_by |-> "user",
     last_modified |-> None,
     name |-> req[p].name,
     override_keys |-> req[p].override_keys,
     traffic_percentage |-> req[p].traffic_percentage,
     status |-> "CREATED",
     context |-> cac_operations[p][1].context,
     variants |-> variants[p]]

\* the Experiment row of lines 140-151
NewExperiment(p) ==
    [id |-> experiment_id[p],
     created_by |-> "user",
     last_modified |-> None,
     name |-> req[p].name,
     override_keys |-> req[p].override_keys,
     traffic_percentage |-> req[p].traffic_percentage,
     status |-> "CREATED",
     context |-> req[p].context,
     variants |-> variants[p]]

\* a mutated insert that, when it fails, sends the context store a further
\* call to take the created contexts back
InsertCompensating(p, inserted) ==
    /\ pc[p] = "persist"
    /\ IF inserted
       THEN /\ experiments' = Append(experiments, NewExperiment(p))
            /\ Return(p, [status |-> "200", body |-> "",
                          experiment_id |-> NewExperiment(p).id])
            /\ UNCHANGED <<bulk_calls, cac_store>>
       ELSE /\ UNCHANGED experiments
            /\ bulk_calls' = Append(bulk_calls, cac_operations[p])
            /\ cac_store' = cac_store \ {cac_operations[p][i].context :
                                            i \in DOMAIN cac_operations[p]}
            /\ Return(p, Answer("500", FailedMsg))
    /\ UNCHANGED <<clock, generator, poisoned, minted, dimVars, podVars, cac_host>>

\* lines 153-172: the insert succeeds or fails
Insert(p, inserted) ==
    /\ pc[p] = "persist"
    /\ IF inserted
       THEN /\ experiments' = Append(experiments, NewExperiment(p))
            /\ Return(p, [status |-> "200", body |-> "",
                          experiment_id |-> NewExperiment(p).id])
       ELSE /\ UNCHANGED experiments
            /\ Return(p, Answer("500", FailedMsg))
    /\ UNCHANGED <<clock, generator, poisoned, bulk_calls, cac_store, minted, dimVars, podVars, cac_host>>

(***************************************************************************)
(* generate_snowflake_id (helpers.rs 204-213)                              *)
(***************************************************************************)
\* lines 205-208: lock(), an error when the lock is poisoned
GenerateLock(p) ==
    /\ pc[p] = "idle"
    /\ p \in GenProcs
    /\ MutexFree
    /\ IF poisoned
       THEN Return(p, Answer("UnexpectedError", ""))
       ELSE /\ lock_owner' = p
            /\ Goto(p, "generate")
            /\ UNCHANGED <<http_response, loaded, req, experiment_id, id, variants,
                           cac_operations, cac_response>>
    /\ UNCHANGED <<clock, generator, poisoned, bulk_calls, cac_store, minted,
                   experiments, dimVars, podVars, cac_host>>

\* lines 211-212: drop(snowflake_generator); Ok(id)
GenerateDrop(p) ==
    /\ pc[p] = "drop"
    /\ Return(p, [status |-> "Ok", body |-> "", experiment_id |-> id[p]])
    /\ UNCHANGED <<clock, generator, poisoned, bulk_calls, cac_store, minted,
                   experiments, dimVars, podVars, cac_host>>

\* a millisecond passes
Tick ==
    /\ clock < MaxClock
    /\ clock' = clock + 1
    /\ UNCHANGED <<generator, lock_owner, poisoned, loaded, pc, req, experiment_id, id,
                   variants, cac_operations, cac_response, http_response, bulk_calls,
                   cac_store, minted, experiments, dimVars, podVars, cac_host>>

Next ==
    \/ \E p \in CreateProcs, r \in Requests, verdict \in {"valid", "invalid", "error"} :
          Validate(p, r, verdict)
    \/ \E p \in CreateProcs : Lock(p)
    \/ \E p \in Procs : RealTimeGenerateLoad(p)
    \/ \E p \in Procs : RealTimeGenerateStore(p)
    \/ \E p \in CreateProcs : Build(p)
    \/ \E p \in CreateProcs : Send(p)
    \/ \E p \in CreateProcs, kind \in {"transport_error", "http"}, status \in {0, 200, 500},
          parsed \in BOOLEAN, applied \in BOOLEAN :
          \E n \in 0..(Len(cac_operations[p]) + 1) :
              CacBulk(p, kind, status, parsed, n, applied)
    \/ \E p \in CreateProcs : HandleResponse(p)
    \/ \E p \in CreateProcs, inserted \in BOOLEAN : Insert(p, inserted)
    \/ \E p \in GenProcs : GenerateLock(p)
    \/ \E p \in GenProcs : GenerateDrop(p)
    \/ Tick

Spec == Init /\ [][Next]_vars

(***************************************************************************)
(* The same handlers under fair scheduling, with the context store either  *)
(* another process or this one.                                            *)
(***************************************************************************)
CacHosts == {"other", "self"}

InitLive ==
    /\ InitCreate
    /\ preserve_order = FALSE
    /\ context_json = JNull
    /\ dimensions = NotRun
    /\ hostname = None
    /\ pod_info = NotCalled
    /\ cac_host \in CacHosts

\* real_time_generate waits for the next millisecond: time passes while a
\* caller whose sequence number wrapped reads the clock again
WaitTick ==
    /\ \E p \in Procs :
          /\ pc[p] = "generating"
          /\ loaded[p].now_millis = loaded[p].last_time_millis
          /\ loaded[p].idx = 0
          /\ clock <= loaded[p].last_time_millis
    /\ clock' = clock + 1
    /\ UNCHANGED <<generator, lock_owner, poisoned, loaded, pc, req, experiment_id, id,
                   variants, cac_operations, cac_response, http_response, bulk_calls,
                   cac_store, minted, experiments, dimVars, podVars, cac_host>>

NextLive == Next \/ WaitTick

\* the context store answers the bulk call of request p
CacAnswers(p) ==
    \E status \in {200, 500}, parsed \in BOOLEAN, applied \in BOOLEAN :
        \E n \in 0..(Len(cac_operations[p]) + 1) :
            CacBulk(p, "http", status, parsed, n, applied)

\* Every handler that can take its next step takes it, the store answers a
\* call it is able to serve, the database answers the insert, and time
\* passes.  Nothing makes a request arrive, and nothing makes a call that
\* gets no answer fail: create configures no timeout on its client
\* (handlers.rs 112).
Fairness ==
    /\ \A p \in CreateProcs :
          /\ WF_vars(Lock(p))
          /\ WF_vars(Build(p))
          /\ WF_vars(Send(p))
          /\ WF_vars(CacAnswers(p))
          /\ WF_vars(HandleResponse(p))
          /\ WF_vars(\E inserted \in BOOLEAN : Insert(p, inserted))
    /\ \A p \in Procs :
          /\ WF_vars(RealTimeGenerateLoad(p))
          /\ WF_vars(RealTimeGenerateStore(p))
    /\ \A p \in GenProcs : WF_vars(GenerateDrop(p))
    /\ WF_vars(WaitTick)

SpecLive == InitLive /\ [][NextLive]_vars /\ Fairness

(***************************************************************************)
(* extract_dimensions on the contexts a caller can pass.  An object's      *)
(* members come in key order, or in any order of distinct keys when        *)
(* serde_json preserves the order of the document.                         *)
(***************************************************************************)
Names == {"a", "b"}

Literals == {"x", "y"}

Operands == {VarRef(n) : n \in Names} \cup {JStr(l) : l \in Literals}

\* arrays of two operands
PairArrays == {JArr(a) : a \in [1..2 -> Operands]}

\* what an operator can be mapped to: operand arrays of every length, a value
\* that is no array, a "var" that is no string, an object literal
OperatorValues ==
    UNION {{JArr(a) : a \in [1..n -> Operands]} : n \in 0..MaxOperands}
    \cup {JStr("x"),
          JArr(<<JObj(<<JMem("var", JNull)>>), JStr("x")>>),
          JArr(<<VarRef("a"), JObj(<<JMem("k", JStr("x"))>>)>>)}

\* objects with the members "==" and "in"
TwoOperators(po, v1, v2) ==
    {JObj(<<JMem("==", v1), JMem("in", v2)>>)}
    \cup (IF po THEN {JObj(<<JMem("in", v2), JMem("==", v1)>>)} ELSE {})

\* the conditions of the enumerated "and" lists
ListConditions(po) ==
    {JObj(<<JMem("==", v)>>) : v \in PairArrays}
    \cup {JStr("x"), JObj(<<JMem("==", JStr("x"))>>)}
    \cup UNION {TwoOperators(po, JArr(<<VarRef(n1), JStr("x")>>),
                                 JArr(<<JStr("y"), VarRef(n2)>>)) :
                   n1 \in Names, n2 \in Names}

AndLists(po) ==
    UNION {[1..n -> ListConditions(po)] : n \in 0..MaxConds}

Contexts(po) ==
    {JStr("x"), JArr(<<>>), JNull,
     JObj(<<JMem("and", JStr("x"))>>),
     JObj(<<JMem("==", JArr(<<JStr("x"), JStr("y")>>)),
            JMem("and", JArr(<<JObj(<<JMem("==", JArr(<<VarRef("a"), JStr("x")>>))>>)>>))>>)}
    \cup {JObj(<<JMem("and", JArr(l))>>) : l \in AndLists(po)}
    \cup {JObj(<<JMem("==", v)>>) : v \in OperatorValues}
    \cup UNION {TwoOperators(po, v1, v2) : v1 \in PairArrays, v2 \in PairArrays}

InitDim ==
    /\ InitCreate
    /\ preserve_order \in BOOLEAN
    /\ context_json \in Contexts(preserve_order)
    /\ dimensions = NotRun
    /\ hostname = None
    /\ pod_info = NotCalled
    /\ cac_host = "other"

\* a caller runs extract_dimensions(&context_json)
ExtractDimensions ==
    /\ dimensions = NotRun
    /\ dimensions' = extract_dimensions(preserve_order, context_json)
    /\ UNCHANGED <<createVars, preserve_order, context_json, podVars, cac_host>>

NextDim == ExtractDimensions

SpecDim == InitDim /\ [][NextDim]_vars

\* extract_dimensions has returned
Extracted == dimensions # NotRun

(***************************************************************************)
(* get_pod_info (helpers.rs 113-126).  A String is the sequence of its     *)
(* characters.                                                             *)
(***************************************************************************)
HostChars == {"a", "b", "-"}

\* str::split("-"): the pieces between the separators, from character i on,
\* current being the piece collected so far; an empty string gives one empty
\* piece
RECURSIVE Split(_, _, _)
Split(str, i, current) ==
    IF i > Len(str) THEN <<current>>
    ELSE IF str[i] = "-" THEN <<current>> \o Split(str, i + 1, <<>>)
    ELSE Split(str, i + 1, Append(current, str[i]))

\* .expect() and .unwrap() on nothing: the process panics
PodPanic == [outcome |-> "panic", pod_id |-> <<>>, deployment_id |-> <<>>]

\* the third tokens.next() of the reversed iterator (helpers.rs 123)
ThirdFromLast(tokens) == tokens[Len(tokens) - 2]

get_pod_info(env_hostname) ==
    IF env_hostname = None THEN PodPanic
    ELSE LET tokens == Split(env_hostname[1], 1, <<>>) IN
         IF Len(tokens) < 3 THEN PodPanic
         ELSE [outcome |-> "ok",
               pod_id |-> tokens[Len(tokens)],
               deployment_id |-> ThirdFromLast(tokens)]

\* the values of HOSTNAME: unset, or a string of up to MaxHostname characters
Hostnames ==
    {None} \cup {Some(h) : h \in UNION {[1..n -> HostChars] : n \in 0..MaxHostname}}

InitPod ==
    /\ InitCreate
    /\ preserve_order = FALSE
    /\ context_json = JNull
    /\ dimensions = NotRun
    /\ hostname \in Hostnames
    /\ pod_info = NotCalled
    /\ cac_host = "other"

\* the process calls get_pod_info() at its start
GetPodInfo ==
    /\ pod_info = NotCalled
    /\ pod_info' = get_pod_info(hostname)
    /\ UNCHANGED <<createVars, dimVars, hostname, cac_host>>

NextPod == GetPodInfo

SpecPod == InitPod /\ [][NextPod]_vars

(***************************************************************************)
(* Properties of the create handler and of the id generator (Spec).        *)
(***************************************************************************)
Verdicts == {"valid", "invalid", "error"}

\* a row whose variants all carry the ids of a remote context
RowComplete(row) ==
    \A i \in DOMAIN row.variants :
        row.variants[i].context_id # None /\ row.variants[i].override_id # None

\* C1: every persisted Experiment row has all of its variants carrying both
\* a context_id and an override_id, whatever the context store returned.
C1_RowsCarryContextIds ==
    \A k \in DOMAIN experiments : RowComplete(experiments[k])

\* the bulk call of request p came back with a result list of another length
\* than the operations submitted
WrongLength(p) ==
    /\ pc[p] \in {"response", "persist"}
    /\ cac_response[p].kind = "http"
    /\ cac_response[p].parsed
    /\ Len(cac_response[p].results) # Len(cac_operations[p])

\* C2: when the bulk call returns a result list whose length differs from the
\* number of submitted PUT operations, the request fails (a server error) and
\* no Experiment row is inserted.
C2_WrongLengthFails ==
    [][\A p \in CreateProcs :
          WrongLength(p) =>
              /\ experiments' = experiments
              /\ pc'[p] = "done" => http_response'[p].status = "500"]_vars

\* the id a caller holds or has been answered with
ObservedIds(p) ==
    ({http_response[p].experiment_id}
     \cup (IF p \in CreateProcs THEN {experiment_id[p]} ELSE {id[p]})) \ {NoId}

\* C3: all ids returned to concurrent callers (create requests and
\* generate_snowflake_id calls) are pairwise distinct, and the generator is
\* read and advanced only by the caller that holds its mutex.
C3_IdsPairwiseDistinct ==
    /\ \A i, j \in DOMAIN minted : i # j => minted[i] # minted[j]
    /\ \A p, q \in Procs : p # q => ObservedIds(p) \cap ObservedIds(q) = {}
    /\ \A p \in Procs : pc[p] \in {"generate", "generating"} => lock_owner = p

\* three callers, a create request and a generate_snowflake_id call among
\* them, have been given ids, the sequence number having wrapped
C3_Witness ==
    /\ Len(minted) >= 3
    /\ \E p \in CreateProcs : http_response[p].status = "200"
    /\ \E p \in GenProcs : http_response[p].status = "Ok"

\* the request fails one of the three pure checks
FailsPureChecks(r) ==
    \/ Cardinality({i \in DOMAIN r.variants : r.variants[i].variant_type = "CONTROL"}) # 1
    \/ ~\E i \in DOMAIN r.variants : r.variants[i].variant_type = "EXPERIMENTAL"
    \/ \E i \in DOMAIN r.variants : \E j \in DOMAIN r.override_keys :
          ~has_key(r.variants[i].overrides, r.override_keys[j])
    \/ r.context.t # "obj"

\* C4: a request that fails the variant-type cardinality check, the
\* override-key coverage check or the context-is-an-object check is rejected
\* (400) in its first step, before any side effect: no id is minted, no bulk
\* call is sent, no row is inserted, the generator is not locked; and a
\* request that has been answered takes no further step.
C4_RejectedBeforeSideEffects ==
    [][\A p \in CreateProcs :
          /\ \A r \in Requests : \A verdict \in Verdicts :
                Validate(p, r, verdict) /\ FailsPureChecks(r) =>
                    /\ pc'[p] = "done"
                    /\ http_response'[p].status = "400"
                    /\ UNCHANGED <<generator, minted, lock_owner, bulk_calls, cac_store,
                                   experiments>>
          /\ pc[p] = "done" =>
                pc'[p] = "done" /\ http_response'[p] = http_response[p]]_vars

\* a request with a context that is no object was rejected, and nothing was
\* minted, sent or inserted
C4_Witness ==
    /\ \E p \in CreateProcs : http_response[p] = Answer("400", ContextMsg)
    /\ \E p \in CreateProcs : http_response[p] = Answer("400", CoverageMsg)
    /\ minted = <<>> /\ bulk_calls = <<>> /\ experiments = <<>>

\* the bulk call of request p failed: no answer, an answer that is no 2xx, or
\* a body that does not parse
RemoteFailed(p) ==
    /\ pc[p] \in {"response", "persist"}
    /\ \/ cac_response[p].kind = "transport_error"
       \/ cac_response[p].kind = "http" /\ cac_response[p].status # 200
       \/ cac_response[p].kind = "http" /\ ~cac_response[p].parsed

\* C5: when the remote bulk call fails (transport error, non-2xx response or
\* unparseable response) the request ends with a server error and no
\* Experiment row is inserted.
C5_RemoteFailureFails ==
    [][\A p \in CreateProcs :
          RemoteFailed(p) =>
              /\ experiments' = experiments
              /\ pc'[p] = "done" => http_response'[p].status = "500"]_vars

\* a context that is a JSON object but no condition tree
MalformedTree(context) ==
    /\ context.t = "obj"
    /\ \E i \in DOMAIN context.c : context.c[i].s = "and" /\ context.c[i].c[1].t # "arr"

\* C6: POST /experiments answers 400 for every request rejected for variant
\* cardinality, override coverage or a malformed context (a context that is
\* no object, or an object that is no condition tree), 500 for every
\* remote-call or persistence failure, and 200 with the experiment id only
\* when the Experiment row was inserted.
C6_StatusCodes ==
    [][\A p \in CreateProcs :
          /\ \A r \in Requests : \A verdict \in Verdicts :
                Validate(p, r, verdict) /\ FailsPureChecks(r) =>
                    http_response'[p].status = "400"
          /\ pc[p] = "build" /\ MalformedTree(req[p].context) /\ pc'[p] = "done" =>
                http_response'[p].status = "400"
          /\ pc[p] = "response" /\ pc'[p] = "done" /\ RemoteFailed(p) =>
                http_response'[p].status = "500"
          /\ pc[p] = "persist" /\ pc'[p] = "done" /\ experiments' = experiments =>
                http_response'[p].status = "500"
          /\ pc[p] # "done" /\ http_response'[p].status = "200" =>
                /\ pc[p] = "persist"
                /\ Len(experiments') = Len(experiments) + 1
                /\ experiments'[Len(experiments')].id = http_response'[p].experiment_id
                /\ http_response'[p].experiment_id = experiment_id[p]]_vars

\* the contexts of the PUT operations of a bulk call
CallContexts(operations) == {operations[i].context : i \in DOMAIN operations}

\* the variant ids of a row
RowVariantIds(row) == {row.variants[i].id : i \in DOMAIN row.variants}

\* the same request was sent in both
SameRequest(row1, row2) ==
    /\ row1.name = row2.name
    /\ row1.context = row2.context
    /\ row1.override_keys = row2.override_keys
    /\ row1.traffic_percentage = row2.traffic_percentage
    /\ [i \in DOMAIN row1.variants |-> row1.variants[i].overrides]
         = [i \in DOMAIN row2.variants |-> row2.variants[i].overrides]

\* C10: when the same valid request is replayed and both runs succeed, there
\* are two Experiment rows with distinct ids whose rewritten variant ids are
\* pairwise distinct, and the bulk calls carry pairwise distinct PUT contexts;
\* nothing is deduplicated.
C10_ReplayCreatesDistinct ==
    \A p, q \in CreateProcs :
        p # q /\ http_response[p].status = "200" /\ http_response[q].status = "200" =>
            /\ http_response[p].experiment_id # http_response[q].experiment_id
            /\ \E i, j \in DOMAIN experiments :
                  /\ i # j
                  /\ experiments[i].id = http_response[p].experiment_id
                  /\ experiments[j].id = http_response[q].experiment_id
                  /\ SameRequest(experiments[i], experiments[j])
                  /\ RowVariantIds(experiments[i]) \cap RowVariantIds(experiments[j]) = {}
            /\ Len(bulk_calls) >= 2
            /\ \A k, l \in DOMAIN bulk_calls :
                  k # l => CallContexts(bulk_calls[k]) \cap CallContexts(bulk_calls[l]) = {}

\* two runs of the same request have both been answered 200
C10_Witness ==
    /\ \A p \in {1, 2} : http_response[p].status = "200"
    /\ Len(experiments) >= 2
    /\ Len(bulk_calls) >= 2

\* the conditions of a base context: its "and" list, or the context itself
BaseConditions(context) ==
    IF \E i \in DOMAIN context.c : context.c[i].s = "and"
    THEN context.c[CHOOSE i \in DOMAIN context.c : context.c[i].s = "and"].c[1].c
    ELSE <<context>>

\* the text of an id followed by "-" and the variant's original id
ExpectedVariantId(eid, original_id) == ToString(eid) \o "-" \o original_id

\* the base context with the condition variant_id == variant_id added
ExpectedContext(context, variant_id) ==
    [t |-> "obj", s |-> "",
     c |-> <<[t |-> "mem", s |-> "and",
              c |-> <<[t |-> "arr", s |-> "",
                       c |-> BaseConditions(context) \o
                             <<[t |-> "obj", s |-> "",
                                c |-> <<[t |-> "mem", s |-> "==",
                                         c |-> <<[t |-> "arr", s |-> "",
                                                  c |-> <<[t |-> "obj", s |-> "",
                                                           c |-> <<[t |-> "mem", s |-> "var",
                                                                    c |-> <<[t |-> "str", s |-> "variant_id", c |-> <<>>]>>]>>],
                                                          [t |-> "str", s |-> variant_id, c |-> <<>>]>>]>>]>>]>>]>>]>>]

\* C11: for a validated request with experiment id E and variants v_1..v_n
\* the single bulk call carries exactly n PUT operations in variant order,
\* operation i pairing v_i's overrides with the base context augmented by the
\* condition variant_id == E-"-"-v_i.id, and every variant id has been
\* rewritten to E-"-"-original id when the call is sent; a request sends at
\* most one bulk call.
C11_BulkCallCarriesPuts ==
    [][\A p \in CreateProcs :
          /\ bulk_calls' # bulk_calls /\ pc[p] = "send" /\ pc'[p] # "send" =>
                LET call == bulk_calls'[Len(bulk_calls')]
                    vs == req[p].variants
                    E == experiment_id[p]
                IN  /\ Len(bulk_calls') = Len(bulk_calls) + 1
                    /\ E # NoId
                    /\ Len(call) = Len(vs)
                    /\ \A i \in DOMAIN vs :
                          /\ call[i].override = vs[i].overrides
                          /\ call[i].context
                                = ExpectedContext(req[p].context,
                                                  ExpectedVariantId(E, vs[i].id))
                          /\ variants[p][i].id = ExpectedVariantId(E, vs[i].id)
          /\ bulk_calls' # bulk_calls =>
                \E q \in CreateProcs : pc[q] = "send" /\ pc'[q] = "remote"
          /\ pc[p] = "remote" => pc'[p] \in {"remote", "response"}
          /\ pc[p] \in {"response", "persist", "done"} => pc'[p] # "send"]_vars

\* two requests have each sent their bulk call of two PUT operations
C11_Witness ==
    /\ Len(bulk_calls) = 2
    /\ \A k \in DOMAIN bulk_calls : Len(bulk_calls[k]) = 2
    /\ bulk_calls[1] # bulk_calls[2]

\* the positions of a create request after its id was minted: CONTEXT_BUILD,
\* REMOTE_CREATE and PERSIST
AfterIdAssignment == {"build", "send", "remote", "response", "persist"}

\* C12: a create request holds the id generator's exclusive access only while
\* minting its experiment id: the lock is released before CONTEXT_BUILD,
\* REMOTE_CREATE and PERSIST, so that while a request is in its bulk call or
\* its insert the generator is free for another caller.
C12_LockOnlyWhileMinting ==
    \A p \in CreateProcs :
        pc[p] \in AfterIdAssignment =>
            /\ lock_owner # p
            /\ (\A q \in Procs : pc[q] \notin {"generate", "generating", "drop"})
                  => lock_owner = 0

\* the positions of create in the order of its steps: VALIDATING (idle),
\* ID_ASSIGNMENT (lock, generate, generating), CONTEXT_BUILD (build),
\* REMOTE_CREATE (send, remote, response), PERSIST (persist), the end (done)
StepOrder ==
    <<"idle", "lock", "generate", "generating", "build", "send", "remote",
      "response", "persist", "done">>

StepRank(position) == CHOOSE i \in DOMAIN StepOrder : StepOrder[i] = position

\* the request passes every check of VALIDATING that the model decides
PassesPureChecks(r) == ~FailsPureChecks(r)

\* within a request the steps run forward only and each at most once, the id
\* is minted after validation passed, and the bulk call is sent after a PUT
\* was built for every variant
StepsInOrder(p) ==
    /\ pc'[p] # pc[p] => StepRank(pc'[p]) > StepRank(pc[p])
    /\ StepRank(pc[p]) > StepRank("idle") /\ pc[p] # "done" =>
          req[p] \in Requests /\ PassesPureChecks(req[p])
    /\ experiment_id'[p] # experiment_id[p] /\ experiment_id'[p] # NoId =>
          /\ pc[p] = "generating"
          /\ experiment_id[p] = NoId
    /\ pc'[p] = "remote" /\ pc[p] # "remote" =>
          /\ pc[p] = "send"
          /\ Len(cac_operations[p]) = Len(req[p].variants)
          /\ experiment_id[p] # NoId

\* the bulk call of request p returned successfully
RemoteSucceeded(p) ==
    /\ cac_response[p].kind = "http"
    /\ cac_response[p].status = 200
    /\ cac_response[p].parsed

\* C13: within one create request the steps occur strictly in the order
\* VALIDATING, ID_ASSIGNMENT, CONTEXT_BUILD, REMOTE_CREATE, PERSIST without
\* back-edges: the id is minted only after all validation passed, the bulk
\* call is sent only after every variant's PUT was built, the insert is
\* attempted only after the bulk call returned successfully, and each step
\* runs at most once per request.
C13_StepsInOrder ==
    [][\A p \in CreateProcs :
          /\ StepsInOrder(p)
          /\ pc'[p] = "persist" /\ pc[p] # "persist" =>
                pc[p] = "response" /\ RemoteSucceeded(p)]_vars

\* C14: if the local insert fails after the remote bulk call succeeded, the
\* request ends with a server error, no Experiment row exists for its id,
\* the contexts created in the context store remain there, and the handler
\* sends the context store no DELETE nor any further call.
C14_FailedInsertLeavesOverrides ==
    [][/\ \A p \in CreateProcs :
             Insert(p, FALSE) /\ RemoteSucceeded(p) =>
                 /\ pc'[p] = "done"
                 /\ http_response'[p].status = "500"
                 /\ \A k \in DOMAIN experiments' : experiments'[k].id # experiment_id[p]
                 /\ CallContexts(cac_operations[p]) # {}
                 /\ CallContexts(cac_operations[p]) \subseteq cac_store'
                 /\ cac_store' = cac_store
                 /\ bulk_calls' = bulk_calls
       /\ bulk_calls' # bulk_calls =>
             \E q \in CreateProcs : pc[q] = "send" /\ pc'[q] = "remote"
       /\ cac_store \subseteq cac_store'
       /\ \A p \in CreateProcs : pc[p] = "done" => pc'[p] = "done"]_vars

\* a request was answered that its insert failed, after the context store
\* had created its contexts
C14_Witness ==
    /\ \E p \in CreateProcs : http_response[p] = Answer("500", FailedMsg)
    /\ cac_store # {}
    /\ experiments = <<>>
    /\ Len(bulk_calls) = 1

AtLock(p) ==
    \/ p \in CreateProcs /\ pc[p] = "lock"
    \/ p \in GenProcs /\ pc[p] = "idle"

\* C17: when the id generator's lock is poisoned, an id-minting caller
\* (generate_snowflake_id or the create handler) fails only its own request
\* with an error value: no id is returned, no remote call is sent, no row is
\* inserted, and the caller does not panic.
C17_PoisonedLockFailsRequest ==
    [][\A p \in Procs :
          poisoned /\ AtLock(p) /\ pc'[p] # pc[p] =>
              /\ pc'[p] = "done"
              /\ http_response'[p].status \in {"500", "UnexpectedError"}
              /\ http_response'[p].experiment_id = NoId
              /\ UNCHANGED <<minted, bulk_calls, experiments>>]_vars

\* the context has a condition on the dimension variant_id
HasVariantCondition(context) ==
    \E i \in DOMAIN BaseConditions(context) :
        LET condition == BaseConditions(context)[i] IN
        /\ condition.t = "obj"
        /\ \E k \in DOMAIN condition.c :
              /\ condition.c[k].c[1].t = "arr"
              /\ \E o \in DOMAIN condition.c[k].c[1].c :
                    condition.c[k].c[1].c[o]
                      = [t |-> "obj", s |-> "",
                         c |-> <<[t |-> "mem", s |-> "var",
                                  c |-> <<[t |-> "str", s |-> "variant_id", c |-> <<>>]>>]>>]

\* C19: building the per-variant augmented contexts leaves the request's
\* base context unchanged: the context of the persisted Experiment row equals
\* the request's context, without any variant_id condition, and the row's
\* override_keys, name and traffic_percentage equal the request's.
C19_BaseContextUnchanged ==
    [][\A p \in CreateProcs :
          /\ \A r \in Requests : \A verdict \in Verdicts :
                Validate(p, r, verdict) /\ pc'[p] # "done" => req'[p] = r
          /\ pc[p] \notin {"idle", "done"} /\ pc'[p] # "done" => req'[p] = req[p]
          /\ Insert(p, TRUE) =>
                LET row == experiments'[Len(experiments')] IN
                /\ Len(experiments') = Len(experiments) + 1
                /\ row.context = req[p].context
                /\ ~HasVariantCondition(row.context)
                /\ row.override_keys = req[p].override_keys
                /\ row.name = req[p].name
                /\ row.traffic_percentage = req[p].traffic_percentage
                /\ \A i \in DOMAIN cac_operations[p] :
                      /\ HasVariantCondition(cac_operations[p][i].context)
                      /\ cac_operations[p][i].context # row.context]_vars

\* a row was inserted after the augmented contexts of its variants had been
\* created in the context store, and its context is the request's
C19_Witness ==
    /\ Len(experiments) >= 1
    /\ experiments[1].context = CityIsNY
    /\ experiments[1].name = "exp1"
    /\ \E context \in cac_store : HasVariantCondition(context)

\* C20: after any create request has terminated in any way (rejected, failed
\* at the remote call, failed on a malformed or wrong-length bulk response,
\* failed at persistence, or created) the id generator is still usable: the
\* request has given the lock back, and a later create request or
\* generate_snowflake_id call that finds the lock free acquires the generator
\* and goes on to obtain an id.
C20_GeneratorStaysUsable ==
    [][\A p \in Procs :
          /\ pc'[p] = "done" => lock_owner' # p
          /\ (\E q \in CreateProcs : pc[q] = "done")
               /\ AtLock(p) /\ lock_owner = 0 /\ pc'[p] # pc[p] =>
                  /\ lock_owner' = p
                  /\ pc'[p] = "generate"]_vars

\* request p has ended in REJECTED (400), FAILED (500) or CREATED (200)
TerminalOutcome(p) ==
    /\ pc[p] = "done"
    /\ http_response[p].status \in {"400", "500", "200"}

\* C21: under fair scheduling, with any number of concurrent create
\* requests, every request that has arrived eventually reaches a terminal
\* outcome (REJECTED, FAILED or CREATED), also when the context store's
\* bulk-operations handler must itself acquire the same id generator lock to
\* serve the request's bulk call and when a remote call never answers.
C21_EveryRequestTerminates ==
    \A p \in CreateProcs : (pc[p] # "idle") ~> TerminalOutcome(p)

(***************************************************************************)
(* Properties of extract_dimensions (SpecDim).                             *)
(***************************************************************************)
\* a {"var": name} reference with a string name
IsVarReference(operand) ==
    /\ operand.t = "obj"
    /\ Len(operand.c) = 1
    /\ operand.c[1].s = "var"
    /\ operand.c[1].c[1].t = "str"

\* an operand that is no object with a "var" member
IsLiteralOperand(operand) ==
    ~(operand.t = "obj" /\ \E i \in DOMAIN operand.c : operand.c[i].s = "var")

\* a flat condition: one operator, one variable operand and one literal
IsFlatCondition(condition) ==
    /\ condition.t = "obj"
    /\ Len(condition.c) = 1
    /\ condition.c[1].c[1].t = "arr"
    /\ LET operands == condition.c[1].c[1].c IN
          /\ Len(operands) = 2
          /\ \/ IsVarReference(operands[1]) /\ IsLiteralOperand(operands[2])
             \/ IsLiteralOperand(operands[1]) /\ IsVarReference(operands[2])

\* the conditions of a context: the "and" list, or the root itself
ConditionsOf(context) ==
    IF context.t # "obj" THEN <<>>
    ELSE IF \E i \in DOMAIN context.c : context.c[i].s = "and"
    THEN LET list == context.c[CHOOSE i \in DOMAIN context.c : context.c[i].s = "and"].c[1]
         IN  IF list.t = "arr" THEN list.c ELSE <<>>
    ELSE <<context>>

\* a valid context of flat conditions
IsFlatContext(context) ==
    /\ context.t = "obj"
    /\ Len(context.c) = 1
    /\ context.c[1].s = "and" => context.c[1].c[1].t = "arr"
    /\ \A i \in DOMAIN ConditionsOf(context) : IsFlatCondition(ConditionsOf(context)[i])

\* the variable name and the literal of a flat condition
FlatName(condition) ==
    LET operands == condition.c[1].c[1].c
    IN  IF IsVarReference(operands[1]) THEN operands[1].c[1].c[1].s
        ELSE operands[2].c[1].c[1].s

FlatLiteral(condition) ==
    LET operands == condition.c[1].c[1].c
    IN  IF IsVarReference(operands[1]) THEN operands[2] ELSE operands[1]

\* the context with the two operands of every flat condition exchanged
SwapCondition(condition) ==
    LET operands == condition.c[1].c[1].c
    IN  JObj(<<JMem(condition.c[1].s, JArr(<<operands[2], operands[1]>>))>>)

SwapOperands(context) ==
    IF context.c[1].s = "and"
    THEN JObj(<<JMem("and", JArr([i \in DOMAIN ConditionsOf(context) |->
                                     SwapCondition(ConditionsOf(context)[i])]))>>)
    ELSE SwapCondition(context)

\* C7: for a valid context of N flat conditions extract_dimensions returns
\* one dimension per distinct variable name (N when the names are distinct),
\* each name mapped to the literal operand of its last condition, and returns
\* the same with the operands of every condition exchanged.
C7_FlatContexts ==
    Extracted /\ IsFlatContext(context_json) =>
        LET conditions == ConditionsOf(context_json)
            names == {FlatName(conditions[i]) : i \in DOMAIN conditions}
        IN  /\ dimensions.ok
            /\ MapKeys(dimensions.map) = names
            /\ Len(dimensions.map) = Cardinality(names)
            /\ \A i \in DOMAIN conditions :
                  (\A j \in DOMAIN conditions :
                       j > i => FlatName(conditions[j]) # FlatName(conditions[i]))
                  => MapGet(dimensions.map, FlatName(conditions[i]))
                        = FlatLiteral(conditions[i])
            /\ dimensions = extract_dimensions(preserve_order, SwapOperands(context_json))

\* two flat conditions on distinct names, the first with the variable as
\* second operand, gave two dimensions
C7_Witness ==
    /\ Extracted
    /\ IsFlatContext(context_json)
    /\ Len(ConditionsOf(context_json)) = 2
    /\ IsLiteralOperand(ConditionsOf(context_json)[1].c[1].c[1].c[1])
    /\ Len(dimensions.map) = 2

\* some condition of the context has an operator none of whose operands is a
\* variable reference
HasOperatorWithoutVar(context) ==
    \E i \in DOMAIN ConditionsOf(context) :
        LET condition == ConditionsOf(context)[i] IN
        /\ condition.t = "obj"
        /\ \E k \in DOMAIN condition.c :
              /\ condition.c[k].c[1].t = "arr"
              /\ \A o \in DOMAIN condition.c[k].c[1].c :
                    IsLiteralOperand(condition.c[k].c[1].c[o])

\* C8: extract_dimensions fails with BadArgument whenever a condition of the
\* context has an operator neither of whose operands is a variable
\* reference, and then returns no partial mapping.
C8_NoVariableFails ==
    Extracted /\ HasOperatorWithoutVar(context_json) =>
        /\ ~dimensions.ok
        /\ dimensions.err = BadArgument
        /\ dimensions.map = <<>>

\* the second of two conditions has no variable operand, the first is flat:
\* the extraction failed although a dimension had been found
C8_Witness ==
    /\ Extracted
    /\ Len(ConditionsOf(context_json)) = 2
    /\ IsFlatCondition(ConditionsOf(context_json)[1])
    /\ HasOperatorWithoutVar(context_json)
    /\ ~dimensions.ok

\* some operator of a condition is mapped to something else than an array of
\* exactly two elements, or to two variable references
HasBadOperands(context) ==
    \E i \in DOMAIN ConditionsOf(context) :
        LET condition == ConditionsOf(context)[i] IN
        /\ condition.t = "obj"
        /\ \E k \in DOMAIN condition.c :
              LET value == condition.c[k].c[1] IN
              \/ value.t # "arr"
              \/ Len(value.c) # 2
              \/ ~IsLiteralOperand(value.c[1]) /\ ~IsLiteralOperand(value.c[2])

\* C9: extract_dimensions fails with BadArgument when an operator's value is
\* not an array of exactly 2 elements (arrays of 3 or more operands included)
\* and when both operands of an operator are variable references.
C9_BadOperandsFail ==
    Extracted /\ HasBadOperands(context_json) =>
        ~dimensions.ok /\ dimensions.err = BadArgument

\* an operator mapped to two operands, one of them a variable reference
IsSimpleOperator(member) ==
    /\ member.c[1].t = "arr"
    /\ Len(member.c[1].c) = 2
    /\ \/ IsVarReference(member.c[1].c[1]) /\ IsLiteralOperand(member.c[1].c[2])
       \/ IsLiteralOperand(member.c[1].c[1]) /\ IsVarReference(member.c[1].c[2])

\* a valid context all of whose operators are simple
IsSimpleContext(context) ==
    /\ context.t = "obj"
    /\ \A i \in DOMAIN context.c : context.c[i].s = "and" => context.c[i].c[1].t = "arr"
    /\ \A i \in DOMAIN ConditionsOf(context) :
          /\ ConditionsOf(context)[i].t = "obj"
          /\ \A k \in DOMAIN ConditionsOf(context)[i].c :
                IsSimpleOperator(ConditionsOf(context)[i].c[k])

\* the name and the value a simple operator stands for
OperatorName(member) ==
    IF IsVarReference(member.c[1].c[1]) THEN member.c[1].c[1].c[1].c[1].s
    ELSE member.c[1].c[2].c[1].c[1].s

OperatorLiteral(member) ==
    IF IsVarReference(member.c[1].c[1]) THEN member.c[1].c[2] ELSE member.c[1].c[1]

\* the occurrences of dimensions in discovery order: condition by condition,
\* and within a condition operator by operator in the order of its keys
RECURSIVE Discovery(_, _, _)
Discovery(conditions, i, k) ==
    IF i > Len(conditions) THEN <<>>
    ELSE IF k > Len(conditions[i].c) THEN Discovery(conditions, i + 1, 1)
    ELSE <<[k |-> OperatorName(conditions[i].c[k]),
            v |-> OperatorLiteral(conditions[i].c[k])]>>
         \o Discovery(conditions, i, k + 1)

FirstOccurrence(occurrences, name) ==
    CHOOSE i \in DOMAIN occurrences :
        /\ occurrences[i].k = name
        /\ \A j \in 1..(i - 1) : occurrences[j].k # name

LastOccurrence(occurrences, name) ==
    CHOOSE i \in DOMAIN occurrences :
        /\ occurrences[i].k = name
        /\ \A j \in (i + 1)..Len(occurrences) : occurrences[j].k # name

\* every name is mapped to the value of its last occurrence
LastWins(map, occurrences) ==
    /\ {map[i].k : i \in DOMAIN map} = {occurrences[i].k : i \in DOMAIN occurrences}
    /\ \A i, j \in DOMAIN map : i # j => map[i].k # map[j].k
    /\ \A i \in DOMAIN map :
          map[i].v = occurrences[LastOccurrence(occurrences, map[i].k)].v

\* the keys come in the order in which they were discovered
KeysInDiscoveryOrder(map, occurrences) ==
    \A i, j \in DOMAIN map :
        i < j /\ LastWins(map, occurrences) =>
            FirstOccurrence(occurrences, map[i].k) < FirstOccurrence(occurrences, map[j].k)

\* C16: when the same dimension name occurs in several conditions or
\* operators of a context, extract_dimensions maps the name to the value of
\* its last occurrence in discovery order (outer condition order, then
\* operator key order within a condition), and the keys of the returned
\* mapping are ordered by discovery.
C16_LastWinsInDiscoveryOrder ==
    Extracted /\ IsSimpleContext(context_json) =>
        LET occurrences == Discovery(ConditionsOf(context_json), 1, 1)
        IN  /\ dimensions.ok
            /\ LastWins(dimensions.map, occurrences)
            /\ KeysInDiscoveryOrder(dimensions.map, occurrences)

(***************************************************************************)
(* Properties of get_pod_info (SpecPod).                                   *)
(***************************************************************************)
\* the positions of the separators of a string
Dashes(str) == {i \in DOMAIN str : str[i] = "-"}

\* the last separator and the one before it
LastDash(str) == CHOOSE i \in Dashes(str) : \A j \in Dashes(str) : j <= i

SecondLastDash(str) ==
    CHOOSE i \in Dashes(str) \ {LastDash(str)} :
        \A j \in Dashes(str) \ {LastDash(str)} : j <= i

\* <deployment>-<replica-set>-<pod-suffix>: the pod suffix follows the last
\* separator, the replica set the one before it, and the deployment, which
\* may itself contain separators, is what precedes; no part is empty
WellFormedHostname(str) ==
    /\ Cardinality(Dashes(str)) >= 2
    /\ LastDash(str) < Len(str)
    /\ SecondLastDash(str) + 1 < LastDash(str)
    /\ SecondLastDash(str) > 1
    /\ str[1] # "-"
    /\ str[SecondLastDash(str) - 1] # "-"

DeploymentOf(str) == SubSeq(str, 1, SecondLastDash(str) - 1)

PodSuffixOf(str) == SubSeq(str, LastDash(str) + 1, Len(str))

\* get_pod_info has run
PodInfoCalled == pod_info # NotCalled

\* C18: get_pod_info fails fatally when HOSTNAME is absent or is not of the
\* form <deployment>-<replica-set>-<pod-suffix>; for every well-formed
\* hostname it returns (pod-suffix, deployment), including when the
\* deployment name itself contains '-'.
C18_PodInfo ==
    PodInfoCalled =>
        IF hostname = None THEN pod_info.outcome = "panic"
        ELSE IF ~WellFormedHostname(hostname[1]) THEN pod_info.outcome = "panic"
        ELSE /\ pod_info.outcome = "ok"
             /\ pod_info.pod_id = PodSuffixOf(hostname[1])
             /\ pod_info.deployment_id = DeploymentOf(hostname[1])

====
